---- MODULE Spec2Model ----
(***************************************************************************)
(* A state-machine model of the QUIC connection core of libp2p-quic        *)
(* (transports/quic/src/connection.rs): the Muxer state, the StreamMuxer   *)
(* facade of QuicMuxer, the QuicUpgrade future, the Outbound token, the    *)
(* QUIC event dispatch and the ConnectionDriver.                           *)
(*                                                                         *)
(* The quinn_proto::Connection is an external collaborator.  It is         *)
(* modelled by the fields q* below: every call the core makes on it is an  *)
(* operator quic_* whose result is decided by that state, and the network  *)
(* and the timers change it only inside handle_event and handle_timeout.   *)
(*                                                                         *)
(* Every action is one critical section on the Muxer lock (one facade      *)
(* call, one process_connection_events call, one driver poll).  The body   *)
(* of a critical section is a function from state record to state record,  *)
(* so that the sequential code composes; Cur packs the variables in such   *)
(* a record and Commit unpacks the result.  The record also carries what   *)
(* the call returned (ret), the tasks it woke (woken), the calls it made   *)
(* on the QUIC machine (calls) and the assertion it failed (panicked): a   *)
(* call that panics aborts its task and is not a step of the model; that   *)
(* it can panic is a property of the state it is made in.                  *)
(*                                                                         *)
(* The model is explored in a few scopes, drawn in Init: each scope bounds *)
(* the stream ids, the calling tasks and the Outbound tokens in use.       *)
(***************************************************************************)
EXTENDS Integers, Sequences, FiniteSets, TLC

\* Bounds of the model.
MaxStreams == 2
NTasks == 2
MaxTokens == 2
MaxGrant == 2
MaxPackets == 2
MaxDeadline == 2

Streams == 1..MaxStreams
Tasks == 1..NTasks
Tokens == 1..MaxTokens

\* const RESET: u32 = 1
RESET == 1

VARIABLES
    \* ---- struct Muxer ----
    pending_stream,   \* Option<StreamId>: 0 is None
    writers,          \* HashMap<StreamId, Waker>: stream -> task, 0 is "no entry"
    readers,          \* HashMap<StreamId, Waker>
    finishers,        \* HashMap<StreamId, Option<Sender>>: "absent" | "None" | "Some"
    handshake_waker,  \* Option<Waker>: task or 0
    accept_waker,     \* Option<Waker>
    connectors,       \* VecDeque<oneshot::Sender<StreamId>>: sequence of token ids
    close_reason,     \* Option<ConnectionError>: "None" or a reason
    waker,            \* Option<Waker> of the driver: TRUE is Some
    close_waker,      \* Option<Waker>
    connection_lost,  \* bool
    pending,          \* Option<Transmit>: the number of the packet, 0 is None
    timer,            \* Option<Delay>: the deadline the Delay was created for, 0 is None
    last_timeout,     \* Option<Instant>: 0 is None
    \* ---- quinn_proto::Connection (opaque) ----
    qstate,           \* "handshaking" | "established" | "closed" | "drained"
    qevents,          \* what poll() will return, in order
    qsend,            \* send side of each stream
    qcredit,          \* how many streams open(Bi) can still return
    qincoming,        \* how many streams accept(Bi) can still return
    qnext,            \* the next stream id the machine hands out
    qlost,            \* the machine has emitted ConnectionLost
    qclosed_with,     \* codes given to Connection::close, in order
    qtx,              \* the number of the next packet poll_transmit returns
    qtimeout,         \* what poll_timeout() returns: a deadline, 0 is None
    qendpoint,        \* how many EndpointEvents poll_endpoint_events() still returns
    \* ---- the endpoint ----
    socket,           \* the packets the UDP socket accepted, in order
    \* ---- values held by the users of the muxer ----
    status,           \* QuicSubstream.status per stream id, "none" before the handle exists
    fin_rx,           \* the oneshot::Receiver<()> inside SubstreamStatus::Finishing
    tok,              \* Outbound tokens: [st, id]
    upgrade,          \* QuicUpgrade: "pending" | "ok" | "bad_certificate" | "failed"
    endpoint_channel, \* the EndpointMessages sent on Muxer.endpoint_channel, in order
    \* ---- the driver task ----
    driver,           \* "scheduled" | "parked" | "done", "dropped" with the Muxer
    \* ---- exploration ----
    scope             \* [streams, tasks, tokens, packets, deadlines, server, full]

vars == << pending_stream, writers, readers, finishers, handshake_waker, accept_waker,
           connectors, close_reason, waker, close_waker, connection_lost,
           pending, timer, last_timeout,
           qstate, qevents, qsend, qcredit, qincoming, qnext, qlost, qclosed_with,
           qtx, qtimeout, qendpoint, socket,
           status, fin_rx, tok, upgrade, endpoint_channel, driver, scope >>

NoTok == [st |-> "free", id |-> 0]

Ev(type, stream, reason) == [type |-> type, stream |-> stream, reason |-> reason]

\* The state a critical section starts from.
Cur ==
    [ pending_stream |-> pending_stream, writers |-> writers, readers |-> readers,
      finishers |-> finishers, handshake_waker |-> handshake_waker,
      accept_waker |-> accept_waker, connectors |-> connectors,
      close_reason |-> close_reason, waker |-> waker, close_waker |-> close_waker,
      connection_lost |-> connection_lost,
      pending |-> pending, timer |-> timer, last_timeout |-> last_timeout,
      qtx |-> qtx, qtimeout |-> qtimeout, qendpoint |-> qendpoint, socket |-> socket,
      qstate |-> qstate, qevents |-> qevents, qsend |-> qsend, qcredit |-> qcredit,
      qincoming |-> qincoming, qnext |-> qnext, qlost |-> qlost,
      qclosed_with |-> qclosed_with,
      status |-> status, fin_rx |-> fin_rx, tok |-> tok,
      upgrade |-> upgrade, endpoint_channel |-> endpoint_channel,
      driver |-> driver, max_streams |-> scope.streams, server |-> scope.server,
      max_deadline |-> scope.deadlines,
      op |-> "none", t |-> 0, s |-> 0,
      panicked |-> "none", ret |-> "none", woken |-> {}, calls |-> {},
      got |-> 0, qres |-> "none", progress |-> FALSE,
      io |-> "none", iterations |-> 0, input |-> <<>> ]

\* The start of the call op by task t on stream or token s
Call(op, t, s) == [Cur EXCEPT !.op = op, !.t = t, !.s = s]

\* The state a critical section leaves.
Commit(S) ==
    /\ pending_stream' = S.pending_stream
    /\ writers' = S.writers
    /\ readers' = S.readers
    /\ finishers' = S.finishers
    /\ handshake_waker' = S.handshake_waker
    /\ accept_waker' = S.accept_waker
    /\ connectors' = S.connectors
    /\ close_reason' = S.close_reason
    /\ waker' = S.waker
    /\ close_waker' = S.close_waker
    /\ connection_lost' = S.connection_lost
    /\ pending' = S.pending
    /\ timer' = S.timer
    /\ last_timeout' = S.last_timeout
    /\ qtx' = S.qtx
    /\ qtimeout' = S.qtimeout
    /\ qendpoint' = S.qendpoint
    /\ socket' = S.socket
    /\ qstate' = S.qstate
    /\ qevents' = S.qevents
    /\ qsend' = S.qsend
    /\ qcredit' = S.qcredit
    /\ qincoming' = S.qincoming
    /\ qnext' = S.qnext
    /\ qlost' = S.qlost
    /\ qclosed_with' = S.qclosed_with
    /\ status' = S.status
    /\ fin_rx' = S.fin_rx
    /\ tok' = S.tok
    /\ upgrade' = S.upgrade
    /\ endpoint_channel' = S.endpoint_channel
    /\ driver' = S.driver
    /\ scope' = scope

Ret(S, r) == [S EXCEPT !.ret = r]
Panic(S, what) == [S EXCEPT !.panicked = what]
Called(S, what) == [S EXCEPT !.calls = @ \cup {what}]

\* Waker::wake of a task's waker (0: there was none)
Wake(S, t) == IF t = 0 THEN S ELSE [S EXCEPT !.woken = @ \cup {t}]

RECURSIVE WakeAll(_, _)
WakeAll(S, ts) ==
    IF ts = {} THEN S
    ELSE LET t == CHOOSE x \in ts : TRUE IN WakeAll(Wake(S, t), ts \ {t})

\* Muxer::wake_driver
wake_driver(S) ==
    IF S.waker
    THEN [S EXCEPT !.waker = FALSE,
                   !.driver = IF @ = "parked" THEN "scheduled"
                              ELSE IF @ = "running" THEN "rewoken" ELSE @]
    ELSE S

\* A variant of is_live that also takes a Finished handle for live
is_live_or_finished(S, s) == S.status[s] \in {"Live", "Finished"}

\* QuicSubstream::is_live
is_live(S, s) == S.status[s] = "Live"

is_closed(S) == S.qstate \in {"closed", "drained"}
is_drained(S) == S.qstate = "drained"
is_handshaking(S) == S.qstate = "handshaking"

(***************************************************************************)
(* quinn_proto::Connection, as the core uses it                            *)
(***************************************************************************)

\* Connection::open(Dir::Bi): Some(id) while the peer's stream limit allows one
quic_open(S) ==
    IF S.qcredit > 0 /\ S.qnext <= S.max_streams
    THEN [Called(S, "open") EXCEPT !.got = S.qnext, !.qnext = @ + 1, !.qcredit = @ - 1,
                                   !.qsend[S.qnext] = "ready"]
    ELSE [Called(S, "open") EXCEPT !.got = 0]

\* Connection::accept(Dir::Bi): Some(id) while a stream opened by the peer is waiting
quic_accept(S) ==
    IF S.qincoming > 0 /\ S.qnext <= S.max_streams
    THEN [Called(S, "accept") EXCEPT !.got = S.qnext, !.qnext = @ + 1, !.qincoming = @ - 1,
                                     !.qsend[S.qnext] = "ready"]
    ELSE [Called(S, "accept") EXCEPT !.got = 0]

\* Connection::finish(id): Ok on a stream open for sending, Stopped once the peer
\* stopped it, UnknownStream otherwise
quic_finish(S, s) ==
    LET C == Called(S, "finish") IN
    CASE S.qsend[s] = "ready" -> [C EXCEPT !.qres = "Ok", !.qsend[s] = "finished"]
      [] S.qsend[s] = "stopped" -> [C EXCEPT !.qres = "Stopped"]
      [] OTHER -> [C EXCEPT !.qres = "UnknownStream"]

\* Connection::stop_sending(id, 0)
quic_stop_sending(S, s) == Called(S, "stop_sending")

\* Connection::close(now, code, reason); the callers check is_closed() first
quic_close(S, code) ==
    [Called(S, "close") EXCEPT !.qstate = "closed", !.qclosed_with = Append(@, code)]

\* What Connection::write(id, buf) can return
WriteOutcomes(S, s) ==
    IF is_closed(S) THEN {"Blocked"}
    ELSE CASE S.qsend[s] = "ready" -> {"Ok", "Blocked"}
           [] S.qsend[s] = "stopped" -> {"Stopped"}
           [] OTHER -> {"UnknownStream"}

\* What Connection::read(id, buf) can return
ReadOutcomes(S, s) == {"Ok", "Fin", "Blocked", "Reset", "UnknownStream"}

(***************************************************************************)
(* The oneshot channels                                                    *)
(***************************************************************************)

\* oneshot::Sender<()>::send(()) on the sender kept in finishers[s]
finisher_send(S, s) ==
    IF S.fin_rx[s] = "pending"
    THEN [S EXCEPT !.fin_rx[s] = "sent"]
    ELSE S

RECURSIVE finishers_drain(_, _)
finishers_drain(S, ss) ==
    IF ss = {} THEN S
    ELSE LET s == CHOOSE x \in ss : TRUE
             S1 == IF S.finishers[s] = "Some" THEN finisher_send(S, s) ELSE S
         IN finishers_drain([S1 EXCEPT !.finishers[s] = "absent"], ss \ {s})

\* VecDeque::truncate(0): every queued oneshot::Sender<StreamId> is dropped
RECURSIVE connectors_truncate(_)
connectors_truncate(S) ==
    IF S.connectors = <<>> THEN S
    ELSE LET k == Head(S.connectors)
             S1 == [S EXCEPT !.connectors = Tail(@)]
         IN connectors_truncate(
                IF S.tok[k].st = "Pending"
                THEN [S1 EXCEPT !.tok[k] = [st |-> "Canceled", id |-> 0]]
                ELSE [S1 EXCEPT !.tok[k] = NoTok])

\* A variant of deliver that gives up at the first requester that is gone
deliver_once(S, stream) ==
    IF S.connectors = <<>> THEN [S EXCEPT !.pending_stream = stream]
    ELSE LET k == Head(S.connectors)
             S1 == [S EXCEPT !.connectors = Tail(@)]
         IN IF S.tok[k].st = "Pending"
            THEN [S1 EXCEPT !.tok[k] = [st |-> "Sent", id |-> stream]]
            ELSE [S1 EXCEPT !.tok[k] = NoTok]

\* while let Some(oneshot) = connectors.pop_front() { oneshot.send(stream) ... }
RECURSIVE deliver(_, _)
deliver(S, stream) ==
    IF S.connectors = <<>> THEN [S EXCEPT !.pending_stream = stream]
    ELSE LET k == Head(S.connectors)
             S1 == [S EXCEPT !.connectors = Tail(@)]
         IN IF S.tok[k].st = "Pending"
            THEN [S1 EXCEPT !.tok[k] = [st |-> "Sent", id |-> stream]]
            ELSE deliver([S1 EXCEPT !.tok[k] = NoTok], stream)

(***************************************************************************)
(* Muxer::shutdown and Muxer::process_app_events                           *)
(***************************************************************************)

NoFinishers(S) == \A s \in Streams : S.finishers[s] = "absent"

\* Event::StreamReadable
on_StreamReadable(S, s) == Wake([S EXCEPT !.readers[s] = 0], S.readers[s])

\* Event::StreamWritable
on_StreamWritable(S, s) == Wake([S EXCEPT !.writers[s] = 0], S.writers[s])

\* Event::StreamAvailable { dir: Dir::Bi }
on_StreamAvailable(S) ==
    IF S.connectors = <<>> THEN S
    ELSE IF S.pending_stream # 0 THEN Panic(S, "assert_no_pending_stream")
    ELSE LET O == quic_open(S)
         IN IF O.got = 0 THEN Panic(O, "expect_stream_available")
            ELSE deliver(O, O.got)

\* Event::StreamFinished
on_StreamFinished(S, s) ==
    LET S1 == Wake([S EXCEPT !.writers[s] = 0], S.writers[s])
    IN IF S1.finishers[s] = "absent" THEN Panic(S1, "expect_finisher")
       ELSE LET S2 == IF S1.finishers[s] = "Some" THEN finisher_send(S1, s) ELSE S1
                S3 == [S2 EXCEPT !.finishers[s] = "absent"]
            IN IF NoFinishers(S3)
               THEN Wake([S3 EXCEPT !.close_waker = 0], S3.close_waker)
               ELSE S3

\* Event::Connected
on_Connected(S) ==
    IF is_handshaking(S) THEN Panic(S, "assert_not_handshaking")
    ELSE Wake([S EXCEPT !.handshake_waker = 0], S.handshake_waker)

\* Event::StreamOpened { dir: Dir::Bi }
on_StreamOpened(S) == Wake([S EXCEPT !.accept_waker = 0], S.accept_waker)

RECURSIVE process_app_events(_), shutdown(_, _)

\* Event::ConnectionLost
on_ConnectionLost(S, reason) ==
    IF ~is_closed(S) THEN Panic(S, "assert_is_closed")
    ELSE LET S1 == [S EXCEPT !.close_reason = reason, !.connection_lost = TRUE]
             S2 == Wake([S1 EXCEPT !.close_waker = 0], S1.close_waker)
         IN shutdown(S2, 0)

dispatch(S, ev) ==
    CASE ev.type = "StreamReadable" -> on_StreamReadable(S, ev.stream)
      [] ev.type = "StreamWritable" -> on_StreamWritable(S, ev.stream)
      [] ev.type = "StreamAvailable" -> on_StreamAvailable(S)
      [] ev.type = "ConnectionLost" -> on_ConnectionLost(S, ev.reason)
      [] ev.type = "StreamFinished" -> on_StreamFinished(S, ev.stream)
      [] ev.type = "Connected" -> on_Connected(S)
      [] ev.type = "StreamOpened" -> on_StreamOpened(S)

process_app_events(S) ==
    IF S.panicked # "none" \/ S.qevents = <<>> THEN S
    ELSE LET ev == Head(S.qevents)
             S1 == [S EXCEPT !.qevents = Tail(@), !.progress = TRUE]
         IN process_app_events(dispatch(S1, ev))

\* A variant of shutdown that closes the QUIC machine without asking is_closed
shutdown_unchecked(S, error_code) ==
    LET S1 == Wake([S EXCEPT !.accept_waker = 0], S.accept_waker)
        S2 == Wake([S1 EXCEPT !.handshake_waker = 0], S1.handshake_waker)
        S3 == WakeAll([S2 EXCEPT !.writers = [s \in Streams |-> 0]],
                      {S2.writers[s] : s \in Streams})
        S4 == WakeAll([S3 EXCEPT !.readers = [s \in Streams |-> 0]],
                      {S3.readers[s] : s \in Streams})
        S5 == finishers_drain(S4, Streams)
        S6 == connectors_truncate(S5)
        S7 == process_app_events(quic_close(S6, error_code))
    IN IF S7.panicked # "none" THEN S7 ELSE wake_driver(S7)

\* Muxer::shutdown
shutdown(S, error_code) ==
    LET S1 == Wake([S EXCEPT !.accept_waker = 0], S.accept_waker)
        S2 == Wake([S1 EXCEPT !.handshake_waker = 0], S1.handshake_waker)
        S3 == WakeAll([S2 EXCEPT !.writers = [s \in Streams |-> 0]],
                      {S2.writers[s] : s \in Streams})
        S4 == WakeAll([S3 EXCEPT !.readers = [s \in Streams |-> 0]],
                      {S3.readers[s] : s \in Streams})
        S5 == finishers_drain(S4, Streams)
        S6 == connectors_truncate(S5)
        S7 == IF ~is_closed(S6) THEN process_app_events(quic_close(S6, error_code))
              ELSE S6
    IN IF S7.panicked # "none" THEN S7 ELSE wake_driver(S7)

(***************************************************************************)
(* impl Future for Outbound                                                *)
(***************************************************************************)

\* OutboundInner::Done
Done == [st |-> "Done", id |-> 0]

\* A variant of Outbound_poll that leaves a Complete token as it is
Outbound_poll_keeping(S, t, k) ==
    LET T == S.tok[k] IN
    CASE T.st = "Complete" ->
            IF T.id = 0 THEN Ret(S, "ConnectionError")
            ELSE Ret([S EXCEPT !.status[T.id] = "Live"], "Ok")
      [] T.st = "Pending" -> Ret(S, "Pending")
      [] T.st = "Sent" -> Ret([S EXCEPT !.tok[k] = Done, !.status[T.id] = "Live"], "Ok")
      [] T.st = "Canceled" -> Ret([S EXCEPT !.tok[k] = Done], "ConnectionLost")
      [] T.st = "Done" -> Panic(S, "polled_after_yielding_ready")

\* Outbound::poll; Sent and Canceled are the two answers of the receiver in
\* OutboundInner::Pending once the sender was used or dropped
Outbound_poll(S, t, k) ==
    LET T == S.tok[k] IN
    CASE T.st = "Complete" ->
            IF T.id = 0 THEN Ret([S EXCEPT !.tok[k] = Done], "ConnectionError")
            ELSE Ret([S EXCEPT !.tok[k] = Done, !.status[T.id] = "Live"], "Ok")
      [] T.st = "Pending" -> Ret(S, "Pending")
      [] T.st = "Sent" -> Ret([S EXCEPT !.tok[k] = Done, !.status[T.id] = "Live"], "Ok")
      [] T.st = "Canceled" -> Ret([S EXCEPT !.tok[k] = Done], "ConnectionLost")
      [] T.st = "Done" -> Panic(S, "polled_after_yielding_ready")

\* destroy_outbound, or dropping the future: the receiver of a Pending token is
\* dropped while its sender stays in connectors
Outbound_drop(S, k) ==
    IF S.tok[k].st = "Pending"
    THEN [S EXCEPT !.tok[k] = [st |-> "Dropped", id |-> 0]]
    ELSE [S EXCEPT !.tok[k] = NoTok]

(***************************************************************************)
(* impl StreamMuxer for QuicMuxer                                          *)
(***************************************************************************)

\* A variant of get_pending_stream that leaves a cached stream where it is
get_pending_stream_uncached(S) ==
    LET S2 == quic_open(wake_driver(S))
    IN IF S2.got # 0 THEN [S2 EXCEPT !.finishers[S2.got] = "None"] ELSE S2

\* A variant of get_pending_stream that hands out the cached stream and keeps
\* it cached
get_pending_stream_keeping(S) ==
    LET S1 == wake_driver(S)
        S2 == IF S1.pending_stream # 0
              THEN [S1 EXCEPT !.got = S1.pending_stream]
              ELSE quic_open(S1)
    IN IF S2.got # 0 THEN [S2 EXCEPT !.finishers[S2.got] = "None"] ELSE S2

\* Muxer::get_pending_stream: the id is left in .got, 0 for None
get_pending_stream(S) ==
    LET S1 == wake_driver(S)
        S2 == IF S1.pending_stream # 0
              THEN [S1 EXCEPT !.got = S1.pending_stream, !.pending_stream = 0]
              ELSE quic_open(S1)
    IN IF S2.got # 0 THEN [S2 EXCEPT !.finishers[S2.got] = "None"] ELSE S2

\* A variant of open_outbound that looks for a stream before it looks at
\* close_reason
open_outbound_eager(S, k) ==
    LET G == get_pending_stream(S) IN
    IF S.close_reason # "None"
    THEN Ret([G EXCEPT !.tok[k] = [st |-> "Complete", id |-> 0]], "Complete(Err)")
    ELSE IF G.got # 0
    THEN Ret([G EXCEPT !.tok[k] = [st |-> "Complete", id |-> G.got]], "Complete(Ok)")
    ELSE Ret(wake_driver([G EXCEPT !.connectors = <<k>> \o @,
                                   !.tok[k] = [st |-> "Pending", id |-> 0]]),
             "Pending")

\* QuicMuxer::open_outbound, the token is built in slot k
open_outbound(S, k) ==
    IF S.close_reason # "None"
    THEN Ret([S EXCEPT !.tok[k] = [st |-> "Complete", id |-> 0]], "Complete(Err)")
    ELSE LET G == get_pending_stream(S) IN
         IF G.got # 0
         THEN Ret([G EXCEPT !.tok[k] = [st |-> "Complete", id |-> G.got]],
                  "Complete(Ok)")
         ELSE Ret(wake_driver([G EXCEPT !.connectors = <<k>> \o @,
                                        !.tok[k] = [st |-> "Pending", id |-> 0]]),
                  "Pending")

\* A variant of destroy_substream that finishes whatever the handle's status
destroy_substream_finishing(S, s) ==
    LET S1 == Wake([S EXCEPT !.writers[s] = 0], S.writers[s])
        S2 == Wake([S1 EXCEPT !.readers[s] = 0], S1.readers[s])
        S3 == IF S2.close_reason = "None" THEN quic_finish(S2, s) ELSE S2
        S4 == quic_stop_sending(S3, s)
    IN Ret([S4 EXCEPT !.status[s] = "destroyed",
                      !.fin_rx[s] = IF @ = "none" THEN "none" ELSE "dropped"], "()")

\* QuicMuxer::destroy_substream
destroy_substream(S, s) ==
    LET S1 == Wake([S EXCEPT !.writers[s] = 0], S.writers[s])
        S2 == Wake([S1 EXCEPT !.readers[s] = 0], S1.readers[s])
        S3 == IF is_live(S2, s) /\ S2.close_reason = "None"
              THEN quic_finish(S2, s) ELSE S2
        S4 == quic_stop_sending(S3, s)
    IN Ret([S4 EXCEPT !.status[s] = "destroyed",
                      !.fin_rx[s] = IF @ = "none" THEN "none" ELSE "dropped"], "()")

\* replace(&mut inner.accept_waker, Some(cx.waker().clone())), the old one woken
register_accept_waker(S, t) == Wake([S EXCEPT !.accept_waker = t], S.accept_waker)

\* QuicMuxer::poll_inbound
poll_inbound(S, t) ==
    IF is_drained(S)
    THEN IF S.close_reason = "None" THEN Panic(S, "expect_close_reason")
         ELSE Ret(S, "ConnectionError")
    ELSE LET A == quic_accept(wake_driver(S)) IN
         IF A.got = 0 THEN Ret(register_accept_waker(A, t), "Pending")
         ELSE Ret([A EXCEPT !.finishers[A.got] = "None", !.status[A.got] = "Live"], "Ok")

\* inner.writers.insert(substream.id, cx.waker().clone()), the old one woken
register_writer(S, t, s) == Wake([S EXCEPT !.writers[s] = t], S.writers[s])

\* A variant of register_reader that drops the waker it displaces
register_reader_silent(S, t, s) == [S EXCEPT !.readers[s] = t]

\* inner.readers.insert(substream.id, cx.waker().clone()), the old one woken
register_reader(S, t, s) == Wake([S EXCEPT !.readers[s] = t], S.readers[s])

\* A variant of write_stopped that clears the whole finishers table
write_stopped_clearing(S, s) ==
    LET S1 == [S EXCEPT !.finishers = [x \in Streams |-> "absent"]]
        S2 == Wake([S1 EXCEPT !.writers[s] = 0], S1.writers[s])
    IN Ret([S2 EXCEPT !.status[s] = "Finished"], "Stopped")

\* Err(WriteError::Stopped(e)) in write_substream
write_stopped(S, s) ==
    LET S1 == [S EXCEPT !.finishers[s] = "absent"]
        S2 == Wake([S1 EXCEPT !.writers[s] = 0], S1.writers[s])
    IN Ret([S2 EXCEPT !.status[s] = "Finished"], "Stopped")

\* QuicMuxer::write_substream, r is what Connection::write returns if it is called,
\* dbg is cfg!(debug_assertions) of the build
write_substream(S, t, s, r, dbg) ==
    IF ~is_live(S, s) THEN Ret(S, "ExpiredStream")
    ELSE IF dbg /\ S.finishers[s] = "absent"
    THEN Panic(S, "debug_assert_finishers")
    ELSE LET S1 == wake_driver(S) IN
         IF S1.close_reason # "None" THEN Ret(S1, "ConnectionError")
         ELSE IF is_drained(S1) THEN Panic(S1, "assert_not_drained")
         ELSE LET W == Called(S1, "write") IN
              CASE r = "Ok" -> Ret(W, "Ok")
                [] r = "Blocked" ->
                    IF W.close_reason # "None" THEN Ret(W, "ConnectionError")
                    ELSE Ret(register_writer(W, t, s), "Pending")
                [] r = "UnknownStream" -> Ret(W, "ExpiredStream")
                [] r = "Stopped" -> write_stopped(W, s)

\* QuicMuxer::read_substream, r is what Connection::read returns
read_substream(S, t, s, r) ==
    LET R == Called(wake_driver(S), "read") IN
    CASE r = "Ok" -> Ret(R, "Ok")
      [] r = "Fin" -> Ret(R, "Ok(0)")
      [] r = "Blocked" ->
            IF R.close_reason = "None" THEN Ret(register_reader(R, t, s), "Pending")
            ELSE IF R.close_reason = "ApplicationClosed"
            THEN Ret(Wake([R EXCEPT !.readers[s] = 0], R.readers[s]), "Ok(0)")
            ELSE Ret(R, "ConnectionError")
      [] r = "UnknownStream" -> Ret(R, "ExpiredStream")
      [] r = "Reset" -> Ret(Wake([R EXCEPT !.readers[s] = 0], R.readers[s]), "Reset")

\* channel.poll_unpin(cx) on the receiver of SubstreamStatus::Finishing
finishing_poll(S, t, s) ==
    CASE S.fin_rx[s] = "pending" -> Ret(S, "Pending")
      [] S.fin_rx[s] = "sent" -> Ret([S EXCEPT !.fin_rx[s] = "taken"], "Ok")
      [] OTHER -> Ret(S, "Err(ConnectionAborted)")

\* A variant of shutdown_substream that retires the handle when finish is Stopped
shutdown_substream_retiring(S, t, s) ==
    CASE S.status[s] = "Finished" -> Ret(S, "Ok")
      [] S.status[s] = "Finishing" -> finishing_poll(wake_driver(S), t, s)
      [] OTHER ->
            LET F == quic_finish(wake_driver(S), s) IN
            CASE F.qres = "UnknownStream" -> Panic(F, "unreachable_unknown_stream")
              [] F.qres = "Stopped" ->
                    Ret([F EXCEPT !.status[s] = "Finished", !.finishers[s] = "absent"],
                        "Stopped")
              [] OTHER ->
                    LET S1 == [F EXCEPT !.fin_rx[s] = "pending",
                                        !.status[s] = "Finishing", !.finishers[s] = "Some"]
                    IN IF F.finishers[s] = "None" THEN Ret(S1, "Pending")
                       ELSE Panic(S1, "unreachable_finishers_entry")

\* QuicMuxer::shutdown_substream
shutdown_substream(S, t, s) ==
    CASE S.status[s] = "Finished" -> Ret(S, "Ok")
      [] S.status[s] = "Finishing" -> finishing_poll(wake_driver(S), t, s)
      [] OTHER ->
            LET F == quic_finish(wake_driver(S), s) IN
            CASE F.qres = "UnknownStream" -> Panic(F, "unreachable_unknown_stream")
              [] F.qres = "Stopped" -> Ret(F, "Stopped")
              [] OTHER ->
                    LET S1 == [F EXCEPT !.fin_rx[s] = "pending",
                                        !.status[s] = "Finishing", !.finishers[s] = "Some"]
                    IN IF F.finishers[s] = "None" THEN Ret(S1, "Pending")
                       ELSE Panic(S1, "unreachable_finishers_entry")

\* for (id, channel) in finishers { if channel.is_none() { connection.finish(*id) } }
RECURSIVE finish_all(_, _)
finish_all(S, ss) ==
    IF ss = {} THEN S
    ELSE LET s == CHOOSE x \in ss : TRUE IN
         finish_all(IF S.finishers[s] = "None" THEN quic_finish(S, s) ELSE S, ss \ {s})

\* A variant of close that does not ask the QUIC machine whether it is closed
close_unless_reason(S, t) ==
    IF S.close_reason # "None" THEN Ret(S, "Ok")
    ELSE IF NoFinishers(S)
    THEN LET S1 == shutdown(S, 0) IN
         Ret([S1 EXCEPT !.close_reason = "LocallyClosed"], "Ok")
    ELSE IF S.close_waker # 0 THEN Ret([S EXCEPT !.close_waker = t], "Pending")
    ELSE Ret(finish_all([S EXCEPT !.close_waker = t], Streams), "Pending")

\* QuicMuxer::close
close(S, t) ==
    IF is_closed(S) THEN Ret(S, "Ok")
    ELSE IF S.close_reason # "None" THEN Ret(S, "Ok")
    ELSE IF NoFinishers(S)
    THEN LET S1 == shutdown(S, 0) IN
         Ret([S1 EXCEPT !.close_reason = "LocallyClosed"], "Ok")
    ELSE IF S.close_waker # 0 THEN Ret([S EXCEPT !.close_waker = t], "Pending")
    ELSE Ret(finish_all([S EXCEPT !.close_waker = t], Streams), "Pending")

(***************************************************************************)
(* impl Future for QuicUpgrade                                             *)
(***************************************************************************)

\* endpoint_channel.start_send(message)
start_send(S, message) == [S EXCEPT !.endpoint_channel = Append(@, message)]

\* A variant of QuicUpgrade_poll that sends ConnectionAccepted before it asks
\* the channel for capacity
QuicUpgrade_poll_unready(S, t, cert_ok, chan) ==
    IF is_closed(S)
    THEN IF S.close_reason = "None" THEN Panic(S, "expect_close_reason")
         ELSE Ret([S EXCEPT !.upgrade = "failed"], "ConnectionError")
    ELSE IF is_handshaking(S) THEN Ret([S EXCEPT !.handshake_waker = t], "Pending")
    ELSE LET S1 == IF S.server THEN start_send(S, "ConnectionAccepted") ELSE S IN
         IF S.server /\ chan = "full" THEN Ret(S1, "Pending")
         ELSE IF cert_ok THEN Ret([S1 EXCEPT !.upgrade = "ok"], "Ok")
         ELSE Ret([S1 EXCEPT !.upgrade = "bad_certificate"], "BadCertificate")

\* QuicUpgrade::poll; cert_ok is the verdict of verify_libp2p_certificate, chan
\* is what endpoint_channel.poll_ready answers if it is asked
QuicUpgrade_poll(S, t, cert_ok, chan) ==
    IF is_closed(S)
    THEN IF S.close_reason = "None" THEN Panic(S, "expect_close_reason")
         ELSE Ret([S EXCEPT !.upgrade = "failed"], "ConnectionError")
    ELSE IF is_handshaking(S) THEN Ret([S EXCEPT !.handshake_waker = t], "Pending")
    ELSE IF S.server /\ chan = "full" THEN Ret(S, "Pending")
    ELSE LET S1 == IF S.server THEN start_send(S, "ConnectionAccepted") ELSE S IN
         IF cert_ok THEN Ret([S1 EXCEPT !.upgrade = "ok"], "Ok")
         ELSE Ret([S1 EXCEPT !.upgrade = "bad_certificate"], "BadCertificate")

\* impl Drop for Muxer; the last Arc<Mutex<Muxer>> went away
Muxer_drop(S) ==
    LET S1 == IF S.close_reason = "None" THEN shutdown(S, RESET) ELSE S
    IN IF S1.panicked # "none" THEN S1
       ELSE Ret([S1 EXCEPT !.driver = "dropped"], "()")

(***************************************************************************)
(* What the network and the timers do to the QUIC machine                  *)
(***************************************************************************)

Push(S, ev) == [S EXCEPT !.qevents = Append(@, ev)]

\* The machine becomes drained: its timers stop and it tells the endpoint
drained(S) == [S EXCEPT !.qstate = "drained", !.qtimeout = 0, !.qendpoint = @ + 1]

\* Connection::handle_event(event): the effect of one ConnectionEvent
handle_event(S, e) ==
    CASE e.type = "Connected" ->
            Push([S EXCEPT !.qstate = "established"], Ev("Connected", 0, "None"))
      [] e.type = "StreamOpened" ->
            Push([S EXCEPT !.qincoming = @ + 1], Ev("StreamOpened", 0, "None"))
      [] e.type = "MaxStreams" ->
            Push([S EXCEPT !.qcredit = @ + e.stream], Ev("StreamAvailable", 0, "None"))
      [] e.type = "Readable" -> Push(S, Ev("StreamReadable", e.stream, "None"))
      [] e.type = "Writable" -> Push(S, Ev("StreamWritable", e.stream, "None"))
      [] e.type = "FinAcked" ->
            Push([S EXCEPT !.qsend[e.stream] = "done"], Ev("StreamFinished", e.stream, "None"))
      [] e.type = "StopSending" ->
            IF S.qsend[e.stream] = "finished"
            THEN Push([S EXCEPT !.qsend[e.stream] = "done"],
                      Ev("StreamFinished", e.stream, "None"))
            ELSE [S EXCEPT !.qsend[e.stream] = "stopped"]
      [] e.type = "Close" ->
            Push([S EXCEPT !.qstate = "closed", !.qlost = TRUE],
                 Ev("ConnectionLost", 0, e.reason))
      [] e.type = "Reset" ->
            Push(drained([S EXCEPT !.qlost = TRUE]), Ev("ConnectionLost", 0, "Reset"))
      [] e.type = "Restart" -> [S EXCEPT !.qtimeout = @ + 1]
      [] OTHER -> S

\* The ConnectionEvents the endpoint can deliver in a state of the machine
ConnectionEvents ==
    LET free == scope.streams - (qnext - 1) - qcredit - qincoming IN
    {Ev("Noop", 0, "None")}
    \cup (IF qstate = "handshaking" THEN {Ev("Connected", 0, "None")} ELSE {})
    \cup (IF qstate = "established"
          THEN {Ev("StreamOpened", 0, "None") : x \in {1} \cap (1..free)}
               \cup {Ev("MaxStreams", n, "None") : n \in (1..MaxGrant) \cap (1..free)}
               \cup {Ev("Readable", s, "None") : s \in {x \in Streams : qsend[x] # "none"}}
               \cup {Ev("Writable", s, "None") : s \in {x \in Streams : qsend[x] = "ready"}}
               \cup {Ev("FinAcked", s, "None") : s \in {x \in Streams : qsend[x] = "finished"}}
               \cup {Ev("StopSending", s, "None") :
                        s \in {x \in Streams : qsend[x] \in {"ready", "finished"}}}
          ELSE {})
    \cup (IF qstate \in {"handshaking", "established"}
          THEN {Ev("Close", 0, "ApplicationClosed")}
          ELSE {})
    \cup (IF qstate # "drained" /\ ~qlost THEN {Ev("Reset", 0, "None")} ELSE {})
    \cup (IF qtimeout # 0 /\ qtimeout < scope.deadlines
          THEN {Ev("Restart", 0, "None")} ELSE {})

\* Connection::handle_timeout(now): nothing due, the idle timeout, or the close timer
handle_timeout(S, tmo) ==
    CASE tmo = "idle" ->
            Push(drained([S EXCEPT !.qlost = TRUE]), Ev("ConnectionLost", 0, "TimedOut"))
      [] tmo = "close" -> drained(S)
      [] OTHER -> S

Timeouts ==
    {"none"}
    \cup (IF qstate \in {"handshaking", "established"} THEN {"idle"} ELSE {})
    \cup (IF qstate = "closed" THEN {"close"} ELSE {})

(***************************************************************************)
(* Muxer::process_connection_events and ConnectionDriver::poll             *)
(***************************************************************************)

\* Muxer::send_to_endpoint: the endpoint takes every EndpointEvent, and in this
\* model answers none with a ConnectionEvent
send_to_endpoint(S) == [S EXCEPT !.qendpoint = 0]

process_connection_events(S, e) ==
    LET S1 == handle_event(S, e) IN
    IF is_drained(S1) THEN S1
    ELSE LET S2 == process_app_events(send_to_endpoint(S1)) IN
         IF S2.panicked # "none" THEN S2 ELSE wake_driver(S2)

\* Muxer::drive_timer; tmo is the timeout that is due now, by poll_timeout() or
\* by the Delay, if one is
drive_timer(S, tmo) ==
    LET H == IF tmo = "none" THEN S
             ELSE [handle_timeout(S, tmo) EXCEPT !.progress = TRUE]
    IN IF H.qtimeout = 0 THEN [H EXCEPT !.timer = 0, !.last_timeout = 0]
       ELSE IF H.qtimeout = H.last_timeout THEN H
       ELSE Called([H EXCEPT !.timer = H.qtimeout], "Delay::new")

\* What socket().poll_send_to answers to the i-th packet offered in one poll of
\* the driver: the socket takes tx.ok packets and then answers tx.then
Answer(tx, i) == IF i <= tx.ok THEN "ok" ELSE tx.then

\* Muxer::poll_transmit, r is what the socket answers
poll_transmit(S, transmit, r) ==
    CASE r = "pending" -> [S EXCEPT !.pending = transmit, !.io = "Ok(true)"]
      [] r = "ok" -> [S EXCEPT !.socket = Append(@, transmit), !.io = "Ok(false)"]
      [] r = "err" -> [S EXCEPT !.io = "Err"]

\* while let Some(transmit) = self.connection.poll_transmit(now): the machine
\* has n more packets to give, none once it is drained, and the next is offered
\* to the socket as the i-th
RECURSIVE transmit_all(_, _, _, _)
transmit_all(S, tx, n, i) ==
    IF n = 0 \/ is_drained(S) THEN S
    ELSE LET T == [S EXCEPT !.qtx = @ + 1, !.progress = TRUE]
             P == poll_transmit(T, S.qtx, Answer(tx, i))
         IN IF P.io = "Ok(false)" THEN transmit_all(P, tx, n - 1, i + 1) ELSE P

\* A variant of pre_application_io that asks the machine for packets before it
\* retries the one it holds
pre_application_io_fresh(S, tx) ==
    LET S0 == transmit_all([S EXCEPT !.io = "none", !.pending = 0], tx, tx.n, 1)
    IN IF S.pending # 0 /\ S0.io \in {"none", "Ok(false)"}
       THEN poll_transmit(S0, S.pending, Answer(tx, tx.n + 1))
       ELSE S0

\* Muxer::pre_application_io; .io = "Err" is the error that `?` returns
pre_application_io(S, tx) ==
    LET S0 == [S EXCEPT !.io = "none"] IN
    IF S0.pending # 0
    THEN LET P == poll_transmit([S0 EXCEPT !.pending = 0], S0.pending, Answer(tx, 1))
         IN IF P.io = "Ok(false)" THEN transmit_all(P, tx, tx.n, 2) ELSE P
    ELSE transmit_all(S0, tx, tx.n, 1)

\* Muxer::poll_endpoint_events, chan is what endpoint_channel.poll_ready answers
RECURSIVE poll_endpoint_events(_, _)
poll_endpoint_events(S, chan) ==
    IF chan = "full" \/ S.qendpoint = 0 THEN S
    ELSE poll_endpoint_events(
            start_send([S EXCEPT !.qendpoint = @ - 1, !.progress = TRUE],
                       "EndpointEvent"),
            chan)

\* What one poll of the driver meets after its first pass of the loop: no
\* timeout is due, the machine has no new packet, the socket answers as before
Later(tx) == [n |-> 0, ok |-> 0, then |-> IF tx.then = "err" THEN "pending" ELSE tx.then]

\* A variant of driver_loop that returns Ok on a drained, locally closed
\* connection without another pass
driver_loop_hasty(S, tmo, tx, chan) ==
    LET S0 == [S EXCEPT !.progress = FALSE, !.iterations = @ + 1]
        S1 == pre_application_io(drive_timer(S0, tmo), tx)
    IN IF S1.io = "Err" THEN Ret([S1 EXCEPT !.driver = "done"], "Err(IO)")
       ELSE LET S2 == process_app_events(S1)
                S3 == poll_endpoint_events(S2, chan)
            IN IF S2.panicked # "none" THEN S2
               ELSE IF is_drained(S3)
               THEN IF S3.close_reason = "None" THEN Panic(S3, "expect_close_reason")
                    ELSE IF S3.close_reason = "LocallyClosed"
                    THEN Ret([S3 EXCEPT !.driver = "done"], "Ok")
                    ELSE Ret([S3 EXCEPT !.driver = "done"], "ConnectionError")
               ELSE Ret([S3 EXCEPT !.driver = IF @ = "rewoken" THEN "scheduled"
                                              ELSE "parked"],
                        "Pending")

\* the loop of ConnectionDriver::poll
RECURSIVE driver_loop(_, _, _, _)
driver_loop(S, tmo, tx, chan) ==
    LET S0 == [S EXCEPT !.progress = FALSE, !.iterations = @ + 1]
        S1 == pre_application_io(drive_timer(S0, tmo), tx)
    IN IF S1.io = "Err" THEN Ret([S1 EXCEPT !.driver = "done"], "Err(IO)")
       ELSE LET S2 == process_app_events(S1)
                S3 == poll_endpoint_events(S2, chan)
            IN IF S2.panicked # "none" THEN S2
               ELSE IF is_drained(S3)
               THEN IF S3.close_reason = "None" THEN Panic(S3, "expect_close_reason")
                    ELSE IF S3.close_reason = "LocallyClosed"
                    THEN IF S3.progress THEN driver_loop(S3, "none", Later(tx), chan)
                         ELSE Ret([S3 EXCEPT !.driver = "done"], "Ok")
                    ELSE Ret([S3 EXCEPT !.driver = "done"], "ConnectionError")
               ELSE IF ~S3.progress
               THEN Ret([S3 EXCEPT !.driver = IF @ = "rewoken" THEN "scheduled"
                                              ELSE "parked"],
                        "Pending")
               ELSE driver_loop(S3, "none", Later(tx), chan)

\* A variant of ConnectionDriver::poll that does not store the task's waker
ConnectionDriver_poll_unregistered(S, tmo, tx, chan) ==
    driver_loop([S EXCEPT !.driver = "running", !.input = <<tmo, tx, chan>>],
                tmo, tx, chan)

\* ConnectionDriver::poll; tmo, tx and chan are what the timers, the socket and
\* the endpoint channel answer during this poll
ConnectionDriver_poll(S, tmo, tx, chan) ==
    driver_loop([S EXCEPT !.waker = TRUE, !.driver = "running",
                          !.input = <<tmo, tx, chan>>],
                tmo, tx, chan)

(***************************************************************************)
(* The state machine                                                       *)
(***************************************************************************)

\* The scopes explored: several tasks on one stream, one task on several
\* inbound streams, one task with several tokens, a connection that sends
\* packets, one whose timers are restarted, and the server side of a connection
\* with an endpoint channel that can be full
Scope(streams, tasks, tokens, packets, deadlines, server, full) ==
    [streams |-> streams, tasks |-> tasks, tokens |-> tokens, packets |-> packets,
     deadlines |-> deadlines, server |-> server, full |-> full]

Scopes ==
    { Scope(1, NTasks, 1, 0, 1, FALSE, FALSE),
      Scope(MaxStreams, 1, 0, 0, 1, FALSE, FALSE),
      Scope(1, 1, MaxTokens, 0, 1, FALSE, FALSE),
      Scope(1, 1, 1, MaxPackets, 1, FALSE, FALSE),
      Scope(1, 1, 1, 0, MaxDeadline, FALSE, FALSE),
      Scope(1, 1, 1, 0, 1, TRUE, TRUE) }

\* Muxer::new, in ConnectionDriver::spawn
InitIn(scopes) ==
    /\ pending_stream = 0
    /\ writers = [s \in Streams |-> 0]
    /\ readers = [s \in Streams |-> 0]
    /\ finishers = [s \in Streams |-> "absent"]
    /\ handshake_waker = 0
    /\ accept_waker = 0
    /\ connectors = <<>>
    /\ close_reason = "None"
    /\ waker = FALSE
    /\ close_waker = 0
    /\ connection_lost = FALSE
    /\ pending = 0
    /\ timer = 0
    /\ last_timeout = 0
    /\ qtx = 1
    /\ qtimeout = 1
    /\ qendpoint = 0
    /\ socket = <<>>
    /\ qstate = "handshaking"
    /\ qevents = <<>>
    /\ qsend = [s \in Streams |-> "none"]
    /\ qcredit = 0
    /\ qincoming = 0
    /\ qnext = 1
    /\ qlost = FALSE
    /\ qclosed_with = <<>>
    /\ status = [s \in Streams |-> "none"]
    /\ fin_rx = [s \in Streams |-> "none"]
    /\ tok = [k \in Tokens |-> NoTok]
    /\ upgrade = "pending"
    /\ endpoint_channel = <<>>
    /\ driver = "scheduled"
    /\ scope \in scopes

Init == InitIn(Scopes)

\* The muxer has been handed to its users by the Upgrade
\* The Muxer has not been dropped
Alive == driver # "dropped"
InUse == upgrade = "ok" /\ Alive
\* The tasks that call, the handles a user holds, the token slots in use
Callers == 1..scope.tasks
Held == {s \in Streams : status[s] \in {"Live", "Finishing", "Finished"}}
Polled == {k \in Tokens : tok[k].st \in {"Complete", "Pending", "Sent", "Canceled", "Done"}}
FreeSlot == {k \in 1..scope.tokens :
                tok[k].st = "free" /\ \A j \in 1..(k - 1) : tok[j].st # "free"}

\* The calls that can be made in the current state, each with its outcome
\* What endpoint_channel.poll_ready can answer: Ready(Ok) or Pending
ChannelAnswers == IF scope.full THEN {"ready", "full"} ELSE {"ready"}
UpgradeCalls ==
    IF upgrade = "pending" /\ Alive
    THEN {QuicUpgrade_poll(Call("upgrade", t, 0), t, c, chan) :
            t \in Callers, c \in BOOLEAN, chan \in ChannelAnswers}
    ELSE {}
OpenOutboundCalls ==
    IF InUse THEN {open_outbound(Call("open_outbound", 0, k), k) : k \in FreeSlot} ELSE {}
PollOutboundCalls ==
    IF InUse
    THEN {Outbound_poll(Call("poll_outbound", t, k), t, k) : t \in Callers, k \in Polled}
    ELSE {}
DropOutboundCalls ==
    IF InUse THEN {Outbound_drop(Call("destroy_outbound", 0, k), k) : k \in Polled} ELSE {}
PollInboundCalls ==
    IF InUse THEN {poll_inbound(Call("poll_inbound", t, 0), t) : t \in Callers} ELSE {}
WriteCalls ==
    IF InUse
    THEN UNION {{write_substream(Call("write_substream", t, s), t, s, r, dbg) :
                    r \in WriteOutcomes(Cur, s), dbg \in BOOLEAN} :
                t \in Callers, s \in Held}
    ELSE {}
ReadCalls ==
    IF InUse
    THEN UNION {{read_substream(Call("read_substream", t, s), t, s, r) :
                    r \in ReadOutcomes(Cur, s)} :
                t \in Callers, s \in Held}
    ELSE {}
ShutdownCalls ==
    IF InUse
    THEN {shutdown_substream(Call("shutdown_substream", t, s), t, s) :
            t \in Callers, s \in Held}
    ELSE {}
DestroyCalls ==
    IF InUse THEN {destroy_substream(Call("destroy_substream", 0, s), s) : s \in Held}
    ELSE {}
CloseCalls ==
    IF InUse THEN {close(Call("close", t, 0), t) : t \in Callers} ELSE {}
\* The endpoint holds a Weak<Mutex<Muxer>>
EndpointCalls ==
    IF Alive
    THEN {process_connection_events(Call("process_connection_events", 0, 0), e) :
            e \in ConnectionEvents}
    ELSE {}
\* The driver task is polled when it was woken through Muxer.waker, and when the
\* timer, the socket or the endpoint channel it registered with wakes it
\* What the machine and the socket can do with packets during one poll of the
\* driver: the machine gives n new packets, the socket takes ok of the packets
\* offered and answers then to the next
Transmits ==
    LET holds == IF pending # 0 THEN 1 ELSE 0 IN
    UNION {{[n |-> n, ok |-> n + holds, then |-> "pending"]}
           \cup {[n |-> n, ok |-> k, then |-> r] :
                    k \in 0..(n + holds - 1), r \in {"pending", "err"}} :
           n \in 0..(scope.packets - (qtx - 1))}
DriverPolls ==
    IF driver \in {"scheduled", "parked"}
    THEN {ConnectionDriver_poll(Call("driver", 0, 0), tmo, tx, chan) :
            tmo \in Timeouts, tx \in Transmits, chan \in ChannelAnswers}
    ELSE {}
\* The driver future has returned Ready and was dropped by its task; the users
\* drop the QuicUpgrade and every QuicMuxer they hold
DropCalls == IF driver = "done" THEN {Muxer_drop(Call("drop", 0, 0))} ELSE {}

FacadeCalls ==
    OpenOutboundCalls \cup PollInboundCalls \cup WriteCalls \cup ReadCalls
    \cup ShutdownCalls \cup DestroyCalls \cup CloseCalls
AllCalls ==
    FacadeCalls \cup UpgradeCalls \cup PollOutboundCalls \cup DropOutboundCalls
    \cup EndpointCalls \cup DriverPolls \cup DropCalls

\* A call that does not panic is a step
Step(R) == R.panicked = "none" /\ Commit(R)

UpgradePoll == \E R \in UpgradeCalls : Step(R)
OpenOutbound == \E R \in OpenOutboundCalls : Step(R)
PollOutbound == \E R \in PollOutboundCalls : Step(R)
DropOutbound == \E R \in DropOutboundCalls : Step(R)
PollInbound == \E R \in PollInboundCalls : Step(R)
WriteSubstream == \E R \in WriteCalls : Step(R)
ReadSubstream == \E R \in ReadCalls : Step(R)
ShutdownSubstream == \E R \in ShutdownCalls : Step(R)
DestroySubstream == \E R \in DestroyCalls : Step(R)
Close == \E R \in CloseCalls : Step(R)
ProcessConnectionEvents == \E R \in EndpointCalls : Step(R)
DriverPoll == \E R \in DriverPolls : Step(R)
MuxerDrop == \E R \in DropCalls : Step(R)

Next ==
    \/ UpgradePoll
    \/ OpenOutbound
    \/ PollOutbound
    \/ DropOutbound
    \/ PollInbound
    \/ WriteSubstream
    \/ ReadSubstream
    \/ ShutdownSubstream
    \/ DestroySubstream
    \/ Close
    \/ ProcessConnectionEvents
    \/ DriverPoll
    \/ MuxerDrop

Spec == Init /\ [][Next]_vars

(***************************************************************************)
(* The opening of outbound streams alone, with the scheduling the executor *)
(* guarantees to the tasks of the users: a future that can make progress   *)
(* is polled.  Nothing obliges the peer to send, the timers to expire, or  *)
(* a user to call.  The driver task gets no condition of its own: the      *)
(* property checked under this specification looks at the states in which  *)
(* the driver is parked with no event left to dispatch, where polling it   *)
(* changes nothing.                                                        *)
(***************************************************************************)

OutboundScopes == { Scope(MaxStreams, 1, MaxTokens, 0, 1, FALSE, FALSE) }

InitOutbound == InitIn(OutboundScopes)

NextOutbound ==
    \/ UpgradePoll
    \/ OpenOutbound
    \/ PollOutbound
    \/ DropOutbound
    \/ ProcessConnectionEvents
    \/ DriverPoll

FairOutbound ==
    /\ InitOutbound
    /\ [][NextOutbound]_vars
    /\ WF_vars(UpgradePoll)
    /\ WF_vars(PollOutbound)

(***************************************************************************)
(* Properties                                                              *)
(***************************************************************************)

\* A StreamFinished event for s that poll() has not returned yet
FinishedQueued(s) ==
    \E i \in 1..Len(qevents) :
        qevents[i].type = "StreamFinished" /\ qevents[i].stream = s

\* C1: whenever the lock is released, every stream whose handle is still Live
\* has an entry in finishers, and finishers has no entry for a stream whose
\* StreamFinished event was dispatched or whose write returned Stopped.
C1_FinishersTrackLiveWriteSides ==
    \A s \in Streams :
        /\ status[s] = "Live" => finishers[s] # "absent"
        /\ status[s] = "Finished" => finishers[s] = "absent"
        /\ (qsend[s] = "done" /\ ~FinishedQueued(s)) => finishers[s] = "absent"

\* C2: once a connection-wide error has set close_reason, every open_outbound,
\* poll_inbound, read_substream, write_substream and shutdown_substream call
\* fails with that ConnectionError: none returns Ok or Pending, none panics.
C2_CallsFailAfterConnectionError ==
    close_reason \notin {"None", "LocallyClosed"} =>
        \A R \in OpenOutboundCalls \cup PollInboundCalls \cup ReadCalls
                 \cup WriteCalls \cup ShutdownCalls :
            /\ R.panicked = "none"
            /\ R.ret \in {"ConnectionError", "Complete(Err)"}

\* A waker slot of the muxer still holds a waker: its task was not woken
Parked ==
    \/ accept_waker # 0
    \/ handshake_waker # 0
    \/ close_waker # 0
    \/ \E s \in Streams : readers[s] # 0 \/ writers[s] # 0
    \/ \E s \in Streams : finishers[s] = "Some" /\ fin_rx[s] = "pending"
    \/ \E k \in Tokens : tok[k].st = "Pending"

\* C3: whenever the connection is drained after the core has seen its loss,
\* every waker installed before has been woken: no slot holds one any more,
\* and in particular not accept_waker, re-registered by a poll_inbound between
\* the loss and the drain.
C3_DrainedLeavesNoTaskParked ==
    (qstate = "drained" /\ connection_lost) => ~Parked

\* C4: a task parked in close_waker is woken once the streams close() waits for
\* have left finishers: whenever the lock is released with finishers empty,
\* close_waker holds nobody, and a close() called then returns Ready(Ok).
C4_CloseResolvesWhenFinishersEmpty ==
    NoFinishers(Cur) =>
        /\ close_waker = 0
        /\ \A R \in CloseCalls : R.ret = "Ok" /\ R.panicked = "none"

\* The requester with token k waits in connectors
Queued(k) == tok[k].st = "Pending"
\* Connection::open(Dir::Bi) would return a stream
CanOpen == quic_open(Cur).got # 0

\* The driver is parked and poll() has no event to return
DriverIdle == driver = "parked" /\ qevents = <<>>

\* C5: no requester stays queued in connectors forever while open(Bi) would
\* succeed: with the driver parked and nothing left to dispatch, a requester
\* that waits while the QUIC machine has a stream to give is eventually served
\* or cancelled.
C5_NoRequesterWaitsWhileOpenSucceeds ==
    \A k \in Tokens : ~<>[](Queued(k) /\ CanOpen /\ DriverIdle)

\* C6: pending_stream is Some only when connectors is empty, and no dispatch of
\* StreamAvailable fails the assertion "we cannot have both pending tasks and
\* a pending stream".
C6_PendingStreamOnlyWithoutConnectors ==
    /\ pending_stream # 0 => connectors = <<>>
    /\ \A R \in AllCalls : R.panicked # "assert_no_pending_stream"

\* A stream opened for a requester that had gone away is cached
C6_Witness == pending_stream # 0 /\ qstate = "established" /\ FreeSlot # {}

\* C7: once close_reason is Some, no step changes its value.
C7_CloseReasonNeverChanges ==
    [][close_reason # "None" => close_reason' = close_reason]_vars

\* C8: a read_substream (write_substream) that returns Pending for stream s
\* leaves the caller's waker in readers[s] (writers[s]), and whenever a call
\* takes another task's waker out of readers or writers, by displacing or by
\* removing it, that call wakes the task.
C8_StreamWakersLeaveOnlyByWaking ==
    /\ \A R \in ReadCalls :
            (R.panicked = "none" /\ R.ret = "Pending") => R.readers[R.s] = R.t
    /\ \A R \in WriteCalls :
            (R.panicked = "none" /\ R.ret = "Pending") => R.writers[R.s] = R.t
    /\ \A R \in AllCalls : \A s \in Streams :
            /\ (R.panicked = "none" /\ readers[s] # 0 /\ R.readers[s] # readers[s])
                    => readers[s] \in R.woken
            /\ (R.panicked = "none" /\ writers[s] # 0 /\ R.writers[s] # writers[s])
                    => writers[s] \in R.woken

\* A read is about to register over the waker of another task
C8_Witness ==
    \E R \in ReadCalls : R.ret = "Pending" /\ readers[R.s] \notin {0, R.t}

\* C9: a close(), poll_inbound or Upgrade poll that registers its waker in a
\* slot occupied by the waker of another task wakes that task.
C9_SingleSlotWakersAreReplacedAndWoken ==
    /\ \A R \in CloseCalls :
            (R.ret = "Pending" /\ close_waker \notin {0, R.t}) => close_waker \in R.woken
    /\ \A R \in PollInboundCalls :
            (R.ret = "Pending" /\ accept_waker \notin {0, R.t}) => accept_waker \in R.woken
    /\ \A R \in UpgradeCalls :
            (R.ret = "Pending" /\ handshake_waker \notin {0, R.t})
                => handshake_waker \in R.woken

\* C10, as the specification states it: on a handle whose status is Finished,
\* read_substream and write_substream return ExpiredStream without calling
\* read or write on the QUIC machine.
C10_FinishedHandleRejectsReadAndWrite ==
    \A R \in ReadCalls \cup WriteCalls :
        status[R.s] = "Finished" =>
            /\ R.ret = "ExpiredStream"
            /\ R.calls \cap {"read", "write"} = {}

\* C10, as the code has it: on a handle whose status is Finished, every
\* write_substream returns ExpiredStream without calling the QUIC machine and
\* without changing the muxer; read_substream does not look at the status and
\* still calls read on the QUIC machine.
C10_FinishedHandleRejectsWrite ==
    /\ \A R \in WriteCalls :
            status[R.s] = "Finished" =>
                /\ R.ret = "ExpiredStream" /\ R.panicked = "none"
                /\ R.calls = {} /\ R.woken = {}
                /\ R = Ret(Call("write_substream", R.t, R.s), "ExpiredStream")
    /\ \A R \in ReadCalls : status[R.s] = "Finished" => "read" \in R.calls

\* A user holds a handle that a Stopped write has made Finished
C10_Witness == InUse /\ \E s \in Held : status[s] = "Finished"

\* C11: write_substream returns ExpiredStream whenever the handle is not Live or
\* finishers has no entry for its stream; no such write fails an assertion.
C11_WriteWithoutFinisherIsExpired ==
    \A R \in WriteCalls :
        (status[R.s] # "Live" \/ finishers[R.s] = "absent") =>
            R.ret = "ExpiredStream" /\ R.panicked = "none"

\* C12: shutdown_substream on a Finishing handle returns Ready(Ok) only when the
\* StreamFinished event of its stream was dispatched; a signal released by the
\* loss or the shutdown of the connection is not reported as success.
C12_ShutdownOkOnlyAfterStreamFinished ==
    \A R \in ShutdownCalls :
        (status[R.s] = "Finishing" /\ R.ret = "Ok") =>
            qsend[R.s] = "done" /\ ~FinishedQueued(R.s)

\* C13: shutdown_substream on a Live handle whose finish is answered Stopped
\* returns Err(Stopped) and leaves the handle's status, the finishers table and
\* the completion channels as they were.
C13_ShutdownStoppedChangesNothing ==
    \A R \in ShutdownCalls :
        (status[R.s] = "Live" /\ "finish" \in R.calls /\ R.qres = "Stopped") =>
            /\ R.ret = "Stopped" /\ R.panicked = "none"
            /\ R.status = status
            /\ R.finishers = finishers
            /\ R.fin_rx = fin_rx

\* A user holds a Live handle of a stream the peer has stopped
C13_Witness ==
    InUse /\ \E s \in Held : status[s] = "Live" /\ qsend[s] = "stopped"
          /\ finishers[s] = "None"

\* What every close() that returned Ready(Ok) leaves behind: the QUIC machine
\* is closed or close_reason is set
CloseDone(S) == is_closed(S) \/ S.close_reason # "None"

\* C14: a close() that returns Ready(Ok) leaves the muxer closed, no later call
\* reopens it, and every close() on a closed muxer returns Ready(Ok) without
\* calling close on the QUIC machine and without changing close_reason.
C14_CloseIsIdempotent ==
    /\ \A R \in CloseCalls : (R.panicked = "none" /\ R.ret = "Ok") => CloseDone(R)
    /\ CloseDone(Cur) =>
            /\ \A R \in AllCalls : R.panicked = "none" => CloseDone(R)
            /\ \A R \in CloseCalls :
                    /\ R.ret = "Ok" /\ R.panicked = "none"
                    /\ "close" \notin R.calls
                    /\ R.close_reason = close_reason
                    /\ R.qclosed_with = qclosed_with

\* close() has shut the connection down, and a task can call it again
C14_Witness ==
    InUse /\ close_reason = "LocallyClosed" /\ qclosed_with # <<>>

\* C15, as the specification states it: destroy_substream on a Finished handle
\* calls neither finish nor stop_sending and leaves readers, writers and
\* finishers unchanged; finish and stop_sending are called only for a Live
\* handle while close_reason is unset.
C15_DestroyFinishedIsNoOp ==
    \A R \in DestroyCalls :
        /\ status[R.s] = "Finished" =>
                /\ R.calls = {}
                /\ R.readers = readers /\ R.writers = writers
                /\ R.finishers = finishers
        /\ R.calls # {} => (status[R.s] = "Live" /\ close_reason = "None")

\* C15, as the code has it: destroy_substream calls finish exactly when the
\* handle is Live and close_reason is unset, and calls stop_sending always; on
\* a Finished handle it leaves finishers and the tables of the other streams
\* unchanged, and removes and wakes the reader and the writer of its stream.
C15_DestroyFinishesOnlyLive ==
    \A R \in DestroyCalls :
        /\ R.panicked = "none" /\ R.ret = "()"
        /\ "finish" \in R.calls <=> (status[R.s] = "Live" /\ close_reason = "None")
        /\ "stop_sending" \in R.calls
        /\ R.finishers = finishers
        /\ R.readers = [readers EXCEPT ![R.s] = 0]
        /\ R.writers = [writers EXCEPT ![R.s] = 0]
        /\ R.woken = {readers[R.s], writers[R.s]} \ {0}

\* A user is about to destroy a Finished handle on which a read is parked
C15_Witness ==
    InUse /\ \E s \in Held : status[s] = "Finished" /\ readers[s] # 0

\* C16: a write_substream on stream s that the QUIC machine answers with
\* Stopped removes finishers[s], removes and wakes writers[s], makes the handle
\* Finished and returns Stopped; the entries of every other stream, the readers,
\* close_reason and the QUIC machine stay as they were.
C16_StoppedWriteTouchesOnlyItsStream ==
    \A R \in WriteCalls :
        R.ret = "Stopped" =>
            /\ R.panicked = "none"
            /\ R.finishers = [finishers EXCEPT ![R.s] = "absent"]
            /\ R.writers = [writers EXCEPT ![R.s] = 0]
            /\ R.woken = {writers[R.s]} \ {0}
            /\ R.status = [status EXCEPT ![R.s] = "Finished"]
            /\ R.readers = readers
            /\ R.close_reason = close_reason
            /\ R.qstate = qstate /\ R.qsend = qsend /\ R.qevents = qevents
            /\ R.connectors = connectors /\ R.pending_stream = pending_stream

\* A stopped stream with a parked writer is written to while another stream
\* has its finishers entry
C16_Witness ==
    \E R \in WriteCalls :
        /\ R.ret = "Stopped" /\ writers[R.s] # 0
        /\ \E s \in Streams \ {R.s} : finishers[s] # "absent"

\* C17: open_outbound returns Complete(Err(ConnectionError)) when close_reason is
\* set, and then neither takes pending_stream, nor opens a stream, nor touches
\* connectors; otherwise, when pending_stream or open(Bi) has a stream id, it
\* returns Complete(Ok(id)) with pending_stream empty and finishers[id] = None;
\* otherwise it puts exactly one sender on connectors and returns Pending.
C17_OpenOutboundCases ==
    \A R \in OpenOutboundCalls :
        LET k == R.s
            id == IF pending_stream # 0 THEN pending_stream ELSE qnext
        IN /\ R.panicked = "none"
           /\ close_reason # "None" =>
                /\ R.ret = "Complete(Err)"
                /\ R.tok[k] = [st |-> "Complete", id |-> 0]
                /\ R.pending_stream = pending_stream
                /\ R.calls = {}
                /\ R.connectors = connectors /\ R.finishers = finishers
           /\ (close_reason = "None" /\ (pending_stream # 0 \/ CanOpen)) =>
                /\ R.ret = "Complete(Ok)"
                /\ R.tok[k] = [st |-> "Complete", id |-> id]
                /\ R.pending_stream = 0
                /\ R.finishers = [finishers EXCEPT ![id] = "None"]
                /\ R.connectors = connectors
                /\ "open" \in R.calls <=> pending_stream = 0
           /\ (close_reason = "None" /\ pending_stream = 0 /\ ~CanOpen) =>
                /\ R.ret = "Pending"
                /\ R.tok[k] = [st |-> "Pending", id |-> 0]
                /\ R.connectors = <<k>> \o connectors
                /\ R.finishers = finishers /\ R.pending_stream = 0

\* A stream is cached in pending_stream when the connection has failed, and a
\* user can ask for an outbound stream
C17_Witness ==
    InUse /\ FreeSlot # {} /\ pending_stream # 0 /\ close_reason # "None"

\* The tokens queued in connectors before position i
Before(i) == {connectors[j] : j \in 1..(i - 1)}

\* C18: when StreamAvailable is dispatched with connectors not empty, the one
\* stream opened goes to exactly one requester whose token is alive, the first
\* such in the queue; the requesters queued before it, whose tokens were
\* dropped, leave connectors; when every queued token was dropped, the queue is
\* emptied and the stream is cached in pending_stream.  It is never discarded.
C18_AvailableStreamGoesToOneLiveRequester ==
    \A R \in EndpointCalls :
        ("open" \in R.calls /\ R.panicked = "none") =>
            LET id == qnext
                live == {i \in 1..Len(connectors) : tok[connectors[i]].st = "Pending"}
            IN /\ R.qnext = id + 1
               /\ IF live = {}
                  THEN /\ R.pending_stream = id
                       /\ R.connectors = <<>>
                       /\ \A k \in Tokens : R.tok[k].st # "Sent"
                  ELSE LET i == CHOOSE x \in live : \A y \in live : x <= y
                           k == connectors[i]
                       IN /\ R.tok[k] = [st |-> "Sent", id |-> id]
                          /\ \A j \in Tokens \ {k} :
                                R.tok[j].id = id => tok[j].id = id
                          /\ R.pending_stream = 0
                          /\ R.connectors = SubSeq(connectors, i + 1, Len(connectors))
                          /\ \A j \in Before(i) : R.tok[j] = NoTok

\* StreamAvailable can be dispatched while a live requester waits behind one
\* whose token was dropped
C18_Witness ==
    /\ Len(connectors) > 1
    /\ tok[connectors[1]].st = "Dropped"
    /\ tok[connectors[2]].st = "Pending"
    /\ \E R \in EndpointCalls : "open" \in R.calls /\ R.panicked = "none"

\* Muxer::shutdown ran in the call that ended in R: only its two callers, the
\* ConnectionLost handler and close(), assign close_reason
ShutdownRan(R) == R.panicked = "none" /\ R.close_reason # close_reason

\* C19: every run of Muxer::shutdown wakes the tasks parked in accept_waker,
\* handshake_waker, readers, writers and close_waker, releases every finisher
\* signal, and cancels every queued Outbound token; afterwards readers,
\* writers, finishers and connectors are empty.
C19_ShutdownWakesEveryParkedTask ==
    \A R \in AllCalls :
        ShutdownRan(R) =>
            /\ accept_waker # 0 => accept_waker \in R.woken
            /\ handshake_waker # 0 => handshake_waker \in R.woken
            /\ close_waker \notin {0, R.t} => close_waker \in R.woken
            /\ \A s \in Streams :
                /\ readers[s] # 0 => readers[s] \in R.woken
                /\ writers[s] # 0 => writers[s] \in R.woken
                /\ (finishers[s] = "Some" /\ fin_rx[s] = "pending")
                        => R.fin_rx[s] = "sent"
                /\ R.readers[s] = 0 /\ R.writers[s] = 0
                /\ R.finishers[s] = "absent"
            /\ \A k \in Tokens : tok[k].st = "Pending" => R.tok[k].st = "Canceled"
            /\ R.connectors = <<>>

\* C20: a facade operation that finds the driver parked leaves it scheduled;
\* in particular destroy_substream and a close() that returns Pending, after
\* their finish and stop_sending calls on the QUIC machine.
C20_FacadeCallsWakeTheDriver ==
    \A R \in FacadeCalls :
        (driver = "parked" /\ R.panicked = "none" /\ R.calls # {}) =>
            R.driver = "scheduled"

\* The ConnectionAccepted messages among the first n sent on the endpoint channel
RECURSIVE Accepted(_, _)
Accepted(ch, n) ==
    IF n = 0 THEN 0
    ELSE Accepted(ch, n - 1) + (IF ch[n] = "ConnectionAccepted" THEN 1 ELSE 0)

\* C21: a server-side Upgrade sends ConnectionAccepted exactly once, in the
\* poll that resolves it with a muxer or with BadCertificate, after the
\* handshake; a poll that finds the endpoint channel without capacity returns
\* Pending and sends nothing; no other poll and no client-side Upgrade sends it.
C21_ConnectionAcceptedSentOnce ==
    /\ Accepted(endpoint_channel, Len(endpoint_channel))
            = (IF scope.server /\ upgrade \in {"ok", "bad_certificate"} THEN 1 ELSE 0)
    /\ \A R \in UpgradeCalls :
            R.panicked = "none" =>
                IF scope.server /\ R.ret \in {"Ok", "BadCertificate"}
                THEN /\ ~is_handshaking(Cur) /\ ~is_closed(Cur)
                     /\ R.endpoint_channel = Append(endpoint_channel, "ConnectionAccepted")
                ELSE R.endpoint_channel = endpoint_channel
    /\ (scope.server /\ upgrade = "pending" /\ qstate = "established") =>
            \A t \in Callers, c \in BOOLEAN :
                LET R == QuicUpgrade_poll(Call("upgrade", t, 0), t, c, "full")
                IN R.ret = "Pending" /\ R.endpoint_channel = endpoint_channel
                   /\ R.upgrade = "pending"

\* A server-side Upgrade has resolved with the muxer
C21_Witness ==
    scope.server /\ upgrade = "ok" /\ endpoint_channel = <<"ConnectionAccepted">>

\* The call that ended in R dispatched Event::Connected or Event::ConnectionLost
HandshakeEnded(R) ==
    /\ R.panicked = "none"
    /\ \/ R.connection_lost # connection_lost
       \/ is_handshaking(Cur) /\ R.qstate = "established"

\* C22: the call that dispatches Connected or ConnectionLost wakes the task
\* parked in handshake_waker, and once the handshake has ended no poll of a
\* client-side Upgrade returns Pending or fails: it resolves with the muxer,
\* with BadCertificate or with a ConnectionError.
C22_UpgradeResolvesAfterHandshake ==
    /\ \A R \in AllCalls :
            (HandshakeEnded(R) /\ handshake_waker # 0) => handshake_waker \in R.woken
    /\ (~scope.server /\ upgrade = "pending" /\ ~is_handshaking(Cur)) =>
            \A R \in UpgradeCalls :
                /\ R.panicked = "none"
                /\ R.ret \in {"Ok", "BadCertificate", "ConnectionError"}

\* C23: a poll of an Outbound token returns Ready exactly when it makes the
\* token Done, and no other call does: a Complete token yields its stored
\* result, a Pending token returns Pending and stays as it is until its signal
\* was sent (Ok(id)) or its sender was dropped (Err(ConnectionLost)), and a
\* poll of a Done token yields nothing, it panics.
C23_OutboundDoneExactlyOnReady ==
    /\ \A R \in PollOutboundCalls :
            LET k == R.s
                T == tok[k]
            IN /\ T.st = "Complete" =>
                    /\ R.ret = (IF T.id = 0 THEN "ConnectionError" ELSE "Ok")
                    /\ R.panicked = "none"
               /\ T.st = "Sent" => R.ret = "Ok" /\ R.status[T.id] = "Live"
               /\ T.st = "Canceled" => R.ret = "ConnectionLost"
               /\ T.st = "Pending" => R.ret = "Pending" /\ R.tok = tok
               /\ T.st = "Done" => R.panicked # "none" /\ R.ret = "none"
               /\ R.panicked = "none" => (R.ret # "Pending" <=> R.tok[k] = Done)
               /\ \A j \in Tokens \ {k} : R.tok[j] = tok[j]
    /\ \A R \in AllCalls : \A k \in Tokens :
            R.panicked = "none" =>
                /\ (R.tok[k].st = "Done" /\ tok[k].st # "Done")
                        => R.op = "poll_outbound" /\ R.s = k
                /\ tok[k].st = "Pending"
                        => R.tok[k].st \in {"Pending", "Sent", "Canceled", "Dropped"}
                /\ (tok[k].st = "Done" /\ R.tok[k] # tok[k])
                        => R.op = "destroy_outbound" /\ R.s = k

\* A user holds a token that has yielded its stream and one that still waits
C23_Witness ==
    \E k, j \in Tokens : tok[k].st = "Done" /\ tok[j].st = "Pending"

\* C24: close is called on the QUIC machine at most once per connection, on a
\* machine that is not closed, with code 0 by close() and by the ConnectionLost
\* handler, and with code 1 (RESET) only when the Muxer is dropped with
\* close_reason unset.
C24_QuicClosedOnceWithCode0Or1 ==
    /\ Len(qclosed_with) <= 1
    /\ \A i \in 1..Len(qclosed_with) : qclosed_with[i] \in {0, RESET}
    /\ \A R \in AllCalls :
            ("close" \in R.calls /\ R.panicked = "none") =>
                /\ qclosed_with = <<>> /\ ~is_closed(Cur)
                /\ IF R.op = "drop"
                   THEN close_reason = "None" /\ R.qclosed_with = <<RESET>>
                   ELSE /\ R.qclosed_with = <<0>>
                        /\ R.op \in {"close", "driver", "process_connection_events"}
    /\ \A R \in DropCalls :
            (close_reason = "None" /\ ~is_closed(Cur)) => R.qclosed_with = <<RESET>>

\* The Muxer was dropped after the driver failed, and reset the connection
C24_Witness == driver = "dropped" /\ qclosed_with = <<RESET>>

\* A waker slot of the muxer state S still holds a waker
ParkedIn(S) ==
    \/ S.accept_waker # 0
    \/ S.handshake_waker # 0
    \/ S.close_waker # 0
    \/ \E s \in Streams : S.readers[s] # 0 \/ S.writers[s] # 0
    \/ \E s \in Streams : S.finishers[s] = "Some" /\ S.fin_rx[s] = "pending"
    \/ \E k \in Tokens : S.tok[k].st = "Pending"

\* C25: a poll of the driver that returns Ready leaves no task parked in the
\* muxer state, also when it returns the I/O error of the socket.
C25_DriverExitLeavesNoTaskParked ==
    \A R \in DriverPolls :
        (R.panicked = "none" /\ R.ret # "Pending") => ~ParkedIn(R)

\* The driver can be polled on a drained QUIC machine
DrainedDriver == is_drained(Cur) /\ driver \in {"scheduled", "parked"}

C27_PacketsSentInOrder ==
    /\ \A i \in 1..Len(socket) : socket[i] = i
    /\ pending # 0 => pending = Len(socket) + 1 /\ qtx = pending + 1
    /\ pending = 0 =>
            \/ qtx = Len(socket) + 1
            \/ qtx = Len(socket) + 2 /\ driver \in {"done", "dropped"}
    /\ \A R \in DriverPolls :
            /\ R.pending # 0 => R.pending = R.qtx - 1
            /\ (pending # 0 /\ R.qtx > qtx) =>
                    Len(R.socket) > Len(socket) /\ R.socket[Len(socket) + 1] = pending
            /\ R.ret # "Err(IO)" =>
                    \A i \in 1..(R.qtx - 1) :
                        i = R.pending \/ (i <= Len(R.socket) /\ R.socket[i] = i)

\* A packet is held because the socket was full after it took the first one,
\* and the next poll of the driver can send it
C27_Witness ==
    /\ socket = <<1>> /\ pending = 2
    /\ \E R \in DriverPolls : R.socket = <<1, 2>> /\ R.pending = 0

\* C28: when poll_timeout() returns a deadline that is not due and that is the
\* deadline drive_timer found at its previous invocation, for which it created
\* the Delay it holds, drive_timer leaves that Delay as it is: it creates no
\* new one.
C28_UnchangedDeadlineKeepsTimer ==
    \A R \in DriverPolls :
        (timer # 0 /\ qtimeout = timer /\ R.input[1] = "none") =>
            "Delay::new" \notin R.calls

\* C29: whenever StreamFinished is dispatched for stream s, finishers has an
\* entry for s: no call fails the expect in the handler, and finishers holds an
\* entry for every stream whose StreamFinished event is queued.
C29_StreamFinishedFindsItsFinisher ==
    /\ \A R \in AllCalls : R.panicked # "expect_finisher"
    /\ \A s \in Streams : FinishedQueued(s) => finishers[s] # "absent"

\* C30: whenever the lock is released, a closed or drained QUIC machine has a
\* close_reason, and no poll_inbound, Upgrade poll or driver poll fails the
\* expect "closed connections always have a reason".
C30_ClosedConnectionHasReason ==
    Alive =>
        /\ is_closed(Cur) => close_reason # "None"
        /\ \A R \in PollInboundCalls \cup UpgradeCalls \cup DriverPolls :
                R.panicked # "expect_close_reason"

\* C31: a poll of the driver takes an EndpointEvent from the QUIC machine only
\* to send it on the endpoint channel, a full channel keeps no application
\* event from being dispatched, and no EndpointEvent is lost under
\* back-pressure: the driver does not end, with Ok or with the connection's
\* error, while the machine still holds one.
C31_EndpointEventsSurviveBackPressure ==
    \A R \in DriverPolls :
        (R.panicked = "none" /\ R.ret # "Err(IO)") =>
            /\ Len(R.endpoint_channel) - Len(endpoint_channel)
                    = (IF is_drained(R) /\ ~is_drained(Cur) THEN 1 ELSE 0)
                      + qendpoint - R.qendpoint
            /\ R.qevents = <<>>
            /\ R.driver = "done" => R.qendpoint = 0

\* The places that hold stream id s: the tokens that carry it (Complete, or
\* signalled through a connector), pending_stream, and the substream handle
Holders(s) ==
    Cardinality({k \in Tokens : tok[k].id = s})
    + (IF pending_stream = s THEN 1 ELSE 0)
    + (IF status[s] # "none" THEN 1 ELSE 0)

\* C32: no stream id is handed out twice: every id that open(Bi) or accept(Bi)
\* has returned is held by at most one of a token, pending_stream and a
\* substream handle, and an open_outbound that takes the id cached in
\* pending_stream puts it into its Complete token and leaves pending_stream
\* empty.
C32_StreamIdHasOneHolder ==
    /\ \A s \in Streams : Holders(s) <= 1
    /\ \A s \in Streams : s >= qnext => Holders(s) = 0
    /\ \A R \in OpenOutboundCalls :
           (pending_stream # 0 /\ R.ret = "Complete(Ok)") =>
               /\ R.pending_stream = 0
               /\ R.tok[R.s] = [st |-> "Complete", id |-> pending_stream]
               /\ R.qnext = qnext

\* An established connection has a stream cached in pending_stream and
\* open_outbound takes it
C32_Witness ==
    /\ pending_stream # 0
    /\ \E R \in OpenOutboundCalls : R.ret = "Complete(Ok)" /\ R.pending_stream = 0

\* C33: the driver never misses a wakeup: whenever the driver future has
\* returned Pending and was not woken since that poll began, its waker is
\* stored in the muxer; a poll that returns Pending leaves the waker stored or,
\* when wake_driver took it during the poll itself (shutdown inside
\* process_app_events), leaves the driver woken; and a call that takes the
\* waker of a suspended driver wakes it.
C33_DriverNeverMissesWakeup ==
    /\ driver = "parked" => waker
    /\ \A R \in DriverPolls :
           (R.panicked = "none" /\ R.ret = "Pending") =>
               /\ R.driver \in {"parked", "scheduled"}
               /\ R.waker \/ R.driver = "scheduled"
    /\ \A R \in AllCalls \ DriverPolls :
           (R.panicked = "none" /\ driver = "parked" /\ ~R.waker) =>
               R.driver = "scheduled"

\* The driver has returned Pending with its waker stored, and a facade call
\* takes the waker and wakes it
C33_Witness ==
    /\ driver = "parked" /\ waker
    /\ \E R \in FacadeCalls :
           R.panicked = "none" /\ ~R.waker /\ R.driver = "scheduled"

\* C34: completion of shutdown_substream is idempotent: a call that returns
\* Ready(Ok) leaves the handle's status Finished, and the next
\* shutdown_substream on the handle returns Ready(Ok) again.
C34_ShutdownOkIsIdempotent ==
    \A R \in ShutdownCalls :
        (R.panicked = "none" /\ R.ret = "Ok") =>
            /\ R.status[R.s] = "Finished"
            /\ shutdown_substream(R, R.t, R.s).ret = "Ok"

\* finish(id) has been issued on every stream of S whose finishers entry is None
FinishIssued(S) == \A s \in Streams : S.finishers[s] = "None" => S.qsend[s] # "ready"

\* C35: while a close() is pending (close_waker installed, close_reason
\* unset), finish(id) has been issued for every entry of finishers whose
\* completion signal is None, and every close() that returns Pending leaves the
\* entries so, the streams added to finishers after the first Pending close()
\* included.
C35_PendingCloseFinishesEveryStream ==
    /\ (close_waker # 0 /\ close_reason = "None") => FinishIssued(Cur)
    /\ \A R \in CloseCalls :
           (R.panicked = "none" /\ R.ret = "Pending") => FinishIssued(R)

====
